---- MODULE Spec2Model ----
(***************************************************************************)
(* Crash hotspot detection: the DBSCAN page (src/dbscan_page.py).          *)
(*                                                                         *)
(* A DataFrame is a record [columns, rows]: the set of column names and    *)
(* the sequence of rows, each row a function from the column names to      *)
(* values.  A coordinate cell is <<v>> for the number v and <<>> for NaN.  *)
(* Coordinates are integers (grid units) and eps is an integer in the same *)
(* units; the distance test d <= eps is done on the squares.               *)
(***************************************************************************)
EXTENDS Integers, Sequences, FiniteSets

VARIABLES
    df,             \* the table handed to the page / to apply_dbscan_clustering (mutated in place)
    pc,             \* position of the page script
    filters_dict,   \* [county, city] chosen in the hotspot sidebar
    eps,            \* DBSCAN radius of the last invocation
    min_samples,    \* DBSCAN min_samples of the last invocation
    show_outliers,  \* the "Show Outliers" checkbox
    signal,         \* how the last clustering call ended
    returned,       \* whether the last clustering call returned (it returns df itself) or raised
    runs,           \* number of clustering invocations so far
    previous,       \* <<table>> as the invocation before the last one returned it, <<>> if none did
    view,           \* what render_map_and_metrics_with_dbscan produced
    fatalities_in,  \* argument of the zone classifier
    zone            \* result of the zone classifier

vars == <<df, pc, filters_dict, eps, min_samples, show_outliers, signal,
          returned, runs, previous, view, fatalities_in, zone>>

(***************************************************************************)
(* Bounds                                                                  *)
(***************************************************************************)
MaxRecs == 3          \* rows of a table
MaxLat == 2           \* latitudes are 0, 2, .., 2*MaxLat
MaxEps == 2           \* eps ranges over -1 .. MaxEps
MaxMinSamples == 3    \* min_samples ranges over 0 .. MaxMinSamples
MaxRuns == 2          \* clustering invocations on one table
MaxRerunRecs == 2     \* rows of a table that is clustered more than once
MaxRankClusters == 4  \* dense spots of a table handed to the ranking
MaxFatalities == 120  \* arguments of the zone classifier

NaN == <<>>
Lats == {NaN} \cup {<<2 * k>> : k \in 0..MaxLat}
Lons == {NaN, <<0>>}
FatalVals == {1, 50}
BaseColumns == {"LATITUDE", "LONGITUD", "FATALS"}
\* the records of the tables clustered directly: any coordinates, 50 fatalities each
CrashRecords == [LATITUDE : Lats, LONGITUD : Lons, FATALS : {50}]

RECURSIVE SeqsUpTo(_, _)
SeqsUpTo(S, n) ==
    IF n = 0 THEN {<<>>}
    ELSE LET shorter == SeqsUpTo(S, n - 1)
         IN shorter \cup {Append(s, x) : s \in {t \in shorter : Len(t) = n - 1}, x \in S}

FreshTable(rows) == [columns |-> BaseColumns, rows |-> rows]
Tables(records) == {FreshTable(rows) : rows \in SeqsUpTo(records, MaxRecs)}

(***************************************************************************)
(* pandas helpers                                                          *)
(***************************************************************************)
Indices(s) == [i \in 1..Len(s) |-> i]

RECURSIVE SumSeq(_)
SumSeq(s) == IF s = <<>> THEN 0 ELSE s[1] + SumSeq(Tail(s))

isna(x) == x = NaN

\* df[["LATITUDE", "LONGITUD"]].dropna().values
dropna_coordinates(d) ==
    LET Valid(i) == ~isna(d.rows[i]["LATITUDE"]) /\ ~isna(d.rows[i]["LONGITUD"])
        keep == SelectSeq(Indices(d.rows), Valid)
    IN [k \in 1..Len(keep) |-> <<d.rows[keep[k]]["LATITUDE"][1], d.rows[keep[k]]["LONGITUD"][1]>>]

\* variant: an existing column is kept instead of being overwritten
SetColumnIfMissing(d, name, values) ==
    IF name \in d.columns THEN d
    ELSE [columns |-> d.columns \cup {name},
          rows |-> [i \in 1..Len(d.rows) |->
                      [c \in d.columns \cup {name} |->
                          IF c = name THEN values[i] ELSE d.rows[i][c]]]]

\* df[name] = values, for values of the table's length
SetColumn(d, name, values) ==
    [columns |-> d.columns \cup {name},
     rows |-> [i \in 1..Len(d.rows) |->
                 [c \in d.columns \cup {name} |->
                     IF c = name THEN values[i] ELSE d.rows[i][c]]]]

\* variant: the sum is taken over the whole table, not per cluster
GroupSumTransformUngrouped(d) ==
    [i \in 1..Len(d.rows) |->
        SumSeq([k \in 1..Len(d.rows) |-> d.rows[k]["FATALS"]])]

\* df.groupby('cluster')['FATALS'].transform('sum')
GroupSumTransform(d) ==
    [i \in 1..Len(d.rows) |->
        LET Same(j) == d.rows[j]["cluster"] = d.rows[i]["cluster"]
            members == SelectSeq(Indices(d.rows), Same)
        IN SumSeq([k \in 1..Len(members) |-> d.rows[members[k]]["FATALS"]])]

(***************************************************************************)
(* sklearn.cluster.DBSCAN(eps, min_samples, metric='euclidean')            *)
(***************************************************************************)
Dist2(p, q) == (p[1] - q[1]) * (p[1] - q[1]) + (p[2] - q[2]) * (p[2] - q[2])

\* variant: a point at distance exactly eps is not a neighbour
NeighborhoodStrict(X, e, i) ==
    LET Near(j) == Dist2(X[i], X[j]) < e * e
    IN SelectSeq(Indices(X), Near)

\* radius_neighbors: the indices within distance eps of point i, i itself included
Neighborhood(X, e, i) ==
    LET Near(j) == Dist2(X[i], X[j]) <= e * e
    IN SelectSeq(Indices(X), Near)

RECURSIVE dbscan_expand(_, _, _, _, _, _)
dbscan_expand(labels, stack, i, label_num, nb, is_core) ==
    LET fresh == labels[i] = -1
        labels1 == IF fresh THEN [labels EXCEPT ![i] = label_num] ELSE labels
        Unlabelled(v) == labels1[v] = -1
        stack1 == IF fresh /\ is_core[i]
                  THEN stack \o SelectSeq(nb[i], Unlabelled)
                  ELSE stack
    IN IF stack1 = <<>> THEN labels1
       ELSE dbscan_expand(labels1, SubSeq(stack1, 1, Len(stack1) - 1),
                          stack1[Len(stack1)], label_num, nb, is_core)

RECURSIVE dbscan_inner(_, _, _, _, _)
dbscan_inner(labels, i, label_num, nb, is_core) ==
    IF i > Len(labels) THEN labels
    ELSE IF labels[i] # -1 \/ ~is_core[i]
         THEN dbscan_inner(labels, i + 1, label_num, nb, is_core)
         ELSE dbscan_inner(dbscan_expand(labels, <<>>, i, label_num, nb, is_core),
                           i + 1, label_num + 1, nb, is_core)

\* parameter validation of DBSCAN.fit: eps > 0 and min_samples >= 1
ValidParameters(e, ms) == e > 0 /\ ms >= 1

fit_predict(X, e, ms) ==
    LET nb == [i \in 1..Len(X) |-> Neighborhood(X, e, i)]
        is_core == [i \in 1..Len(X) |-> Len(nb[i]) >= ms]
    IN dbscan_inner([i \in 1..Len(X) |-> -1], 1, 0, nb, is_core)

(***************************************************************************)
(* apply_dbscan_clustering                                                 *)
(***************************************************************************)
\* variant: the Danger threshold is exclusive
categorize_zone_exclusive(fatalities) ==
    IF fatalities > 100 THEN <<"Danger", "red">>
    ELSE IF 50 <= fatalities /\ fatalities < 100 THEN <<"Mild", "yellow">>
    ELSE <<"Low Danger", "green">>

categorize_zone(fatalities) ==
    IF fatalities >= 100 THEN <<"Danger", "red">>
    ELSE IF 50 <= fatalities /\ fatalities < 100 THEN <<"Mild", "yellow">>
    ELSE <<"Low Danger", "green">>

Raised(d, what) == [df |-> d, signal |-> what, returned |-> FALSE]
Returned(d, what) == [df |-> d, signal |-> what, returned |-> TRUE]

\* variant: the check for an empty coordinate array is missing
apply_dbscan_clustering_unguarded(d, e, ms) ==
    LET coordinates == dropna_coordinates(d)
    IN IF ~ValidParameters(e, ms) THEN Raised(d, "InvalidParameter")
       ELSE LET labels == fit_predict(coordinates, e, ms)
            IN IF Len(labels) # Len(d.rows) THEN Raised(d, "ValueError")
               ELSE LET d1 == SetColumn(d, "cluster", labels)
                        d2 == SetColumn(d1, "fatalities", GroupSumTransform(d1))
                        zones == [i \in 1..Len(d2.rows) |->
                                     categorize_zone(d2.rows[i]["fatalities"])]
                        d3 == SetColumn(d2, "zone_label",
                                        [i \in 1..Len(zones) |-> zones[i][1]])
                        d4 == SetColumn(d3, "zone_color",
                                        [i \in 1..Len(zones) |-> zones[i][2]])
                    IN Returned(d4, "ok")

apply_dbscan_clustering(d, e, ms) ==
    LET coordinates == dropna_coordinates(d)
    IN IF Len(coordinates) = 0 THEN Returned(d, "NoValidPoints")
       ELSE IF ~ValidParameters(e, ms) THEN Raised(d, "InvalidParameter")
       ELSE LET labels == fit_predict(coordinates, e, ms)
            IN IF Len(labels) # Len(d.rows) THEN Raised(d, "ValueError")
               ELSE LET d1 == SetColumn(d, "cluster", labels)
                        d2 == SetColumn(d1, "fatalities", GroupSumTransform(d1))
                        zones == [i \in 1..Len(d2.rows) |->
                                     categorize_zone(d2.rows[i]["fatalities"])]
                        d3 == SetColumn(d2, "zone_label",
                                        [i \in 1..Len(zones) |-> zones[i][1]])
                        d4 == SetColumn(d3, "zone_color",
                                        [i \in 1..Len(zones) |-> zones[i][2]])
                    IN Returned(d4, "ok")

(***************************************************************************)
(* render_map_and_metrics_with_dbscan                                      *)
(***************************************************************************)
Reverse(s) == [i \in 1..Len(s) |-> s[Len(s) + 1 - i]]

Head_n(s, n) == SubSeq(s, 1, IF n < Len(s) THEN n ELSE Len(s))

\* numpy argsort with a stable kind (the mergesort of nlargest): the positions
\* of arr in ascending order of value, equal values in order of position
argsort_stable(arr) ==
    LET n == Len(arr)
        rank == [i \in 1..n |->
                   Cardinality({j \in 1..n : arr[j] < arr[i] \/ (arr[j] = arr[i] /\ j < i)}) + 1]
    IN [r \in 1..n |-> CHOOSE i \in 1..n : rank[i] = r]

\* the sorted distinct values of df['cluster'], the group keys of groupby
GroupKeys(d) ==
    LET ids == {d.rows[i]["cluster"] : i \in 1..Len(d.rows)}
        RECURSIVE Ascending(_)
        Ascending(S) == IF S = {} THEN <<>>
                        ELSE LET m == CHOOSE x \in S : \A y \in S : x <= y
                             IN <<m>> \o Ascending(S \ {m})
    IN Ascending(ids)

GroupRows(d, c) ==
    LET In(i) == d.rows[i]["cluster"] = c
        members == SelectSeq(Indices(d.rows), In)
    IN [k \in 1..Len(members) |-> d.rows[members[k]]]

\* a mean is kept as <<sum, count>>
Mean(rows, col) == <<SumSeq([k \in 1..Len(rows) |-> rows[k][col][1]]), Len(rows)>>

\* numpy argsort with the default kind, 'quicksort', which numpy documents as
\* not stable and dispatches by build and CPU (scalar introsort, or the sorting
\* networks of x86-simd-sort): every arrangement of the positions in ascending
\* order of value, the positions of equal values in any order
RECURSIVE argsort_quicksort_from(_, _)
argsort_quicksort_from(arr, S) ==
    IF S = {} THEN {<<>>}
    ELSE LET least == {i \in S : \A j \in S : arr[i] <= arr[j]}
         IN UNION {{<<i>> \o rest : rest \in argsort_quicksort_from(arr, S \ {i})} :
                      i \in least}

argsort_quicksort(arr) == argsort_quicksort_from(arr, 1..Len(arr))

\* sort_values(by=col, ascending=...) with no kind given, so kind='quicksort':
\* the set of frames it can return.  Descending, pandas reverses the items,
\* sorts and reverses back.
sort_values(frame, col, ascending) ==
    LET idx == IF ascending THEN Indices(frame) ELSE Reverse(Indices(frame))
        items == [k \in 1..Len(idx) |-> frame[idx[k]][col]]
        Sorted(order) ==
            LET indexer == [k \in 1..Len(idx) |-> idx[order[k]]]
                final == IF ascending THEN indexer ELSE Reverse(indexer)
            IN [k \in 1..Len(final) |-> frame[final[k]]]
    IN {Sorted(order) : order \in argsort_quicksort(items)}

\* DataFrame.nlargest(n, col), keep='first': the set of frames it can return.
\* With n >= len(frame) pandas sorts the whole column with sort_values;
\* otherwise it selects the n largest with kth_smallest and orders them with
\* a stable mergesort.
nlargest(frame, n, col) ==
    IF n <= 0 THEN {<<>>}
    ELSE IF n >= Len(frame) THEN {Head_n(sorted, n) : sorted \in sort_values(frame, col, FALSE)}
    ELSE LET arr == [i \in 1..Len(frame) |-> 0 - frame[i][col]]
             sorted == argsort_stable(arr)
             kth_val == arr[sorted[n]]
             AtMost(i) == arr[i] <= kth_val
             ns == SelectSeq(Indices(frame), AtMost)
             order == argsort_stable([k \in 1..Len(ns) |-> arr[ns[k]]])
             inds == Head_n([k \in 1..Len(ns) |-> ns[order[k]]], n)
         IN {[k \in 1..Len(inds) |-> frame[inds[k]]]}

\* top_clusters['cluster_name'] = ['Cluster ' + str(i+1) ...]
WithClusterNames(top) ==
    [k \in 1..Len(top) |->
        [c \in DOMAIN top[k] \cup {"cluster_name"} |->
            IF c = "cluster_name" THEN k ELSE top[k][c]]]

MapSummary(d) ==
    LET keys == GroupKeys(d)
        summary == [k \in 1..Len(keys) |->
                      LET g == GroupRows(d, keys[k])
                      IN [cluster |-> keys[k],
                          fatalities |-> g[1]["fatalities"],
                          zone_label |-> g[1]["zone_label"],
                          zone_color |-> g[1]["zone_color"],
                          lat |-> Mean(g, "LATITUDE"),
                          lon |-> Mean(g, "LONGITUD")]]
    IN sort_values(summary, "cluster", TRUE)

MapTopN == 10

MapTopClusters(cluster_summary) ==
    {WithClusterNames(top) : top \in nlargest(cluster_summary, MapTopN, "fatalities")}

Outliers(d, so) ==
    LET Noise(i) == d.rows[i]["cluster"] = -1
        idx == IF so THEN SelectSeq(Indices(d.rows), Noise) ELSE <<>>
    IN [k \in 1..Len(idx) |-> <<d.rows[idx[k]]["LATITUDE"], d.rows[idx[k]]["LONGITUD"]>>]

MetricsSummary(d) ==
    LET keys == GroupKeys(d)
    IN [k \in 1..Len(keys) |->
          LET g == GroupRows(d, keys[k])
          IN [cluster |-> keys[k],
              crashes |-> Len(g),
              fatalities |-> SumSeq([j \in 1..Len(g) |-> g[j]["FATALS"]]),
              zone_label |-> g[1]["zone_label"]]]

TopN(f) ==
    IF f.county # "All counties" THEN 5
    ELSE IF f.city # "All cities" THEN 3
    ELSE 10

\* the span is kept as <<color, text>>
color_zone_label(z) ==
    IF z = "Danger" THEN <<"red", z>>
    ELSE IF z = "Mild" THEN <<"yellow", z>>
    ELSE <<"green", z>>

MetricsTopClusters(cluster_summary, f) ==
    LET Colored(top) ==
            [k \in 1..Len(top) |-> [top[k] EXCEPT !["zone_label"] = color_zone_label(@)]]
    IN {Colored(WithClusterNames(top)) : top \in nlargest(cluster_summary, TopN(f), "crashes")}

NoView ==
    [shown |-> FALSE, info |-> FALSE, map_summary |-> <<>>, map_top |-> <<>>,
     outliers |-> <<>>, metrics_summary |-> <<>>, top_n |-> 0, metrics_top |-> <<>>]

\* the set of views one rendering can produce
render_map_and_metrics_with_dbscan(d, f, so) ==
    IF d.rows = <<>> THEN {[NoView EXCEPT !.info = TRUE]}
    ELSE LET metrics_summary == MetricsSummary(d)
             Views(map_summary) ==
                 {[shown |-> TRUE, info |-> FALSE,
                   map_summary |-> map_summary,
                   map_top |-> map_top,
                   outliers |-> Outliers(d, so),
                   metrics_summary |-> metrics_summary,
                   top_n |-> TopN(f),
                   metrics_top |-> metrics_top] :
                     map_top \in MapTopClusters(map_summary),
                     metrics_top \in MetricsTopClusters(metrics_summary, f)}
         IN UNION {Views(map_summary) : map_summary \in MapSummary(d)}

\* clustered_df[clustered_df['cluster'] != -1]
RemoveOutliers(d) ==
    LET Clustered(i) == d.rows[i]["cluster"] # -1
        keep == SelectSeq(Indices(d.rows), Clustered)
    IN [columns |-> d.columns, rows |-> [k \in 1..Len(keep) |-> d.rows[keep[k]]]]

(***************************************************************************)
(* Direct invocations of the clustering step, repeated on the same table   *)
(***************************************************************************)
EpsVals == (-1)..MaxEps
MinSamplesVals == 0..MaxMinSamples
NoFilter == [county |-> "All counties", city |-> "All cities"]

Idle(tables) ==
    /\ df \in tables
    /\ filters_dict = NoFilter
    /\ eps = 1
    /\ min_samples = 1
    /\ show_outliers = TRUE
    /\ signal = "none"
    /\ returned = FALSE
    /\ runs = 0
    /\ previous = <<>>
    /\ view = NoView
    /\ fatalities_in = 0
    /\ zone = <<>>

InitCluster == Idle(Tables(CrashRecords)) /\ pc = "idle"

Invoke(e, ms) ==
    LET r == apply_dbscan_clustering(df, e, ms)
    IN /\ df' = r.df
       /\ signal' = r.signal
       /\ returned' = r.returned
       /\ eps' = e
       /\ min_samples' = ms
       /\ runs' = runs + 1
       /\ previous' = IF returned THEN <<df>> ELSE <<>>

\* the first call on a fresh table
ApplyDbscanClustering ==
    /\ pc = "idle"
    /\ \E e \in EpsVals, ms \in MinSamplesVals : Invoke(e, ms)
    /\ pc' = "called"
    /\ UNCHANGED <<filters_dict, show_outliers, view, fatalities_in, zone>>

\* a later call on the table an earlier call has been through
ReapplyDbscanClustering ==
    /\ pc = "called"
    /\ runs < MaxRuns
    /\ Len(df.rows) <= MaxRerunRecs
    /\ \E e \in EpsVals, ms \in MinSamplesVals : Invoke(e, ms)
    /\ pc' = "called"
    /\ UNCHANGED <<filters_dict, show_outliers, view, fatalities_in, zone>>

NextCluster == ApplyDbscanClustering \/ ReapplyDbscanClustering

SpecCluster == InitCluster /\ [][NextCluster]_vars

(***************************************************************************)
(* render_dbscan_page                                                      *)
(***************************************************************************)
Counties == {"All counties", "ADAMS"}
Cities == {"All cities", "AURORA"}
\* the sliders of dbscan_filters only offer valid parameters
SliderEps == 1..MaxEps
SliderMinSamples == 1..MaxMinSamples
\* the records of the tables the page is given: two places that eps = 2 joins, or no latitude
PageRecords == [LATITUDE : {NaN, <<0>>, <<2>>}, LONGITUD : {<<0>>}, FATALS : FatalVals]

Init == Idle(Tables(PageRecords)) /\ pc = "start"

\* lines 193-204: the sidebars and the empty check
SidebarFilters ==
    /\ pc = "start"
    /\ \E county \in Counties, city \in Cities :
          filters_dict' = [county |-> county, city |-> city]
    /\ IF df.rows = <<>>
       THEN /\ pc' = "stopped"
            /\ signal' = "NoData"
            /\ UNCHANGED <<eps, min_samples, show_outliers>>
       ELSE /\ pc' = "filtered"
            /\ signal' = signal
            /\ eps' \in SliderEps
            /\ min_samples' \in SliderMinSamples
            /\ show_outliers' \in BOOLEAN
    /\ UNCHANGED <<df, returned, runs, previous, view, fatalities_in, zone>>

\* lines 206-212: the clustering call and the check of its result
Clustering ==
    /\ pc = "filtered"
    /\ LET r == apply_dbscan_clustering(df, eps, min_samples)
       IN /\ df' = r.df
          /\ signal' = r.signal
          /\ returned' = r.returned
          /\ pc' = IF ~r.returned THEN "crashed"
                   ELSE IF "cluster" \notin r.df.columns THEN "stopped"
                   ELSE "clustered"
    /\ runs' = runs + 1
    /\ UNCHANGED <<filters_dict, eps, min_samples, show_outliers, previous, view,
                   fatalities_in, zone>>

\* lines 214-221: dropping the outliers and rendering
RenderMapAndMetrics ==
    /\ pc = "clustered"
    /\ LET clustered_df == IF ~show_outliers THEN RemoveOutliers(df) ELSE df
       IN view' \in render_map_and_metrics_with_dbscan(clustered_df, filters_dict, show_outliers)
    /\ pc' = "rendered"
    /\ UNCHANGED <<df, filters_dict, eps, min_samples, show_outliers, signal, returned,
                   runs, previous, fatalities_in, zone>>

Next == SidebarFilters \/ Clustering \/ RenderMapAndMetrics

Spec == Init /\ [][Next]_vars

(***************************************************************************)
(* The page after clustering a table of many dense spots: spot k lies at   *)
(* latitude 4k and is either one crash with 50 fatalities or two crashes   *)
(* with one fatality each.  With eps = 1 every spot is a group of its own; *)
(* with min_samples = 2 the single crashes are noise.                      *)
(***************************************************************************)
SpotKinds == {"single", "pair"}

RECURSIVE SpotRows(_, _)
SpotRows(kinds, k) ==
    IF k > Len(kinds) THEN <<>>
    ELSE LET at == [LATITUDE |-> <<4 * k>>, LONGITUD |-> <<0>>]
             here == IF kinds[k] = "single"
                     THEN <<[LATITUDE |-> at.LATITUDE, LONGITUD |-> at.LONGITUD, FATALS |-> 50]>>
                     ELSE <<[LATITUDE |-> at.LATITUDE, LONGITUD |-> at.LONGITUD, FATALS |-> 1],
                            [LATITUDE |-> at.LATITUDE, LONGITUD |-> at.LONGITUD, FATALS |-> 1]>>
         IN here \o SpotRows(kinds, k + 1)

InitRank ==
    /\ \E kinds \in SeqsUpTo(SpotKinds, MaxRankClusters) \ {<<>>}, ms \in 1..2 :
          LET r == apply_dbscan_clustering(FreshTable(SpotRows(kinds, 1)), 1, ms)
          IN /\ df = r.df
             /\ min_samples = ms
             /\ show_outliers \in IF ms = 1 THEN {TRUE} ELSE BOOLEAN
    /\ returned = TRUE
    /\ signal = "ok"
    /\ eps = 1
    /\ filters_dict \in {f \in [county : Counties, city : Cities] :
                            f.county = "All counties" \/ f.city = "All cities"}
    /\ pc = "clustered"
    /\ runs = 1
    /\ previous = <<>>
    /\ view = NoView
    /\ fatalities_in = 0
    /\ zone = <<>>

NextRank == RenderMapAndMetrics

SpecRank == InitRank /\ [][NextRank]_vars

(***************************************************************************)
(* The zone classifier on its own                                          *)
(***************************************************************************)
InitZone ==
    /\ df = FreshTable(<<>>)
    /\ pc = "idle"
    /\ filters_dict = NoFilter
    /\ eps = 1
    /\ min_samples = 1
    /\ show_outliers = TRUE
    /\ signal = "none"
    /\ returned = FALSE
    /\ runs = 0
    /\ previous = <<>>
    /\ view = NoView
    /\ fatalities_in \in 0..MaxFatalities
    /\ zone = <<>>

CategorizeZone ==
    /\ pc = "idle"
    /\ zone' = categorize_zone(fatalities_in)
    /\ pc' = "classified"
    /\ UNCHANGED <<df, filters_dict, eps, min_samples, show_outliers, signal, returned,
                   runs, previous, view, fatalities_in>>

NextZone == CategorizeZone

SpecZone == InitZone /\ [][NextZone]_vars

(***************************************************************************)
(* Vocabulary of the properties                                            *)
(***************************************************************************)
ValidRow(r) == r["LATITUDE"] # NaN /\ r["LONGITUD"] # NaN
ValidRows(d) == {i \in 1..Len(d.rows) : ValidRow(d.rows[i])}
Called == pc \in {"called", "stopped", "crashed", "clustered", "rendered"} /\ runs >= 1

RECURSIVE SumOver(_, _)
SumOver(S, f) ==
    IF S = {} THEN 0
    ELSE LET x == CHOOSE y \in S : TRUE IN f[x] + SumOver(S \ {x}, f)

\* the rows the assignment gives id c, and their fatalities
Members(d, c) == {i \in 1..Len(d.rows) : d.rows[i]["cluster"] = c}
FatalitySum(d, c) == SumOver(Members(d, c), [i \in 1..Len(d.rows) |-> d.rows[i]["FATALS"]])
Ids(d) == {d.rows[i]["cluster"] : i \in 1..Len(d.rows)}

\* the geometry of the points of a table whose rows are all valid
Point(d, i) == <<d.rows[i]["LATITUDE"][1], d.rows[i]["LONGITUD"][1]>>
Within(d, i, j) ==
    (Point(d, i)[1] - Point(d, j)[1]) * (Point(d, i)[1] - Point(d, j)[1])
  + (Point(d, i)[2] - Point(d, j)[2]) * (Point(d, i)[2] - Point(d, j)[2]) <= eps * eps
Core(d, i) == Cardinality({j \in 1..Len(d.rows) : Within(d, i, j)}) >= min_samples
NearCore(d, i) == \E j \in 1..Len(d.rows) : Core(d, j) /\ Within(d, i, j)

(***************************************************************************)
(* C1: for a table with at least one record with valid coordinates and     *)
(* valid eps/min_samples, the clustering step returns an assignment that   *)
(* gives every valid-coordinate record exactly one id >= -1, leaves the    *)
(* invalid records out, and the counts per id add up to the number of      *)
(* valid records.                                                          *)
(***************************************************************************)
C1_Totality ==
    (pc = "called" /\ ValidRows(df) # {} /\ ValidParameters(eps, min_samples))
    => /\ signal = "ok"
       /\ returned
       /\ "cluster" \in df.columns
       /\ \A i \in ValidRows(df) : df.rows[i]["cluster"] >= -1
       /\ SumOver(Ids(df), [c \in Ids(df) |-> Cardinality(Members(df, c) \cap ValidRows(df))])
             = Cardinality(ValidRows(df))

(***************************************************************************)
(* C2: the noise id -1 never appears in a cluster summary nor among the    *)
(* entries selected for the map markers or the metrics table, whatever     *)
(* the show_outliers flag.                                                 *)
(***************************************************************************)
NoNoiseIn(entries) == \A k \in 1..Len(entries) : entries[k].cluster >= 0

C2_NoiseNeverSummarized ==
    view.shown
    => /\ NoNoiseIn(view.map_summary)
       /\ NoNoiseIn(view.map_top)
       /\ NoNoiseIn(view.metrics_summary)
       /\ NoNoiseIn(view.metrics_top)

(***************************************************************************)
(* C3: categorize_zone returns Danger/red exactly for fatalities >= 100,   *)
(* Mild/yellow exactly for 50 <= fatalities < 100 and Low Danger/green     *)
(* exactly for fatalities < 50; 49 is Low Danger, 50 and 99 are Mild and   *)
(* 100 is Danger.                                                          *)
(***************************************************************************)
C3_ZoneThresholds ==
    pc = "classified"
    => /\ zone \in {<<"Danger", "red">>, <<"Mild", "yellow">>, <<"Low Danger", "green">>}
       /\ (zone = <<"Danger", "red">>) <=> (fatalities_in >= 100)
       /\ (zone = <<"Mild", "yellow">>) <=> (50 <= fatalities_in /\ fatalities_in < 100)
       /\ (zone = <<"Low Danger", "green">>) <=> (fatalities_in < 50)
       /\ fatalities_in = 49 => zone[1] = "Low Danger"
       /\ fatalities_in \in {50, 99} => zone[1] = "Mild"
       /\ fatalities_in = 100 => zone[1] = "Danger"

C3_Witness == pc = "classified" /\ fatalities_in = 100 /\ zone = <<"Danger", "red">>

(***************************************************************************)
(* C4: every summary, on the map and in the metrics table, counts exactly  *)
(* the records the assignment gives its id, sums exactly their fatalities  *)
(* and carries the tier and color of the classifier for that sum, whether  *)
(* or not the noise rows were dropped before.                              *)
(***************************************************************************)
Assignment == df

C4_SummariesMatchAssignment ==
    view.shown
    => /\ \A k \in 1..Len(view.map_summary) :
             LET m == view.map_summary[k]
             IN /\ m.fatalities = FatalitySum(Assignment, m.cluster)
                /\ <<m.zone_label, m.zone_color>> = categorize_zone(FatalitySum(Assignment, m.cluster))
       /\ \A k \in 1..Len(view.map_top) :
             LET m == view.map_top[k]
             IN /\ m.fatalities = FatalitySum(Assignment, m.cluster)
                /\ <<m.zone_label, m.zone_color>> = categorize_zone(FatalitySum(Assignment, m.cluster))
       /\ \A k \in 1..Len(view.metrics_summary) :
             LET m == view.metrics_summary[k]
             IN /\ m.crashes = Cardinality(Members(Assignment, m.cluster))
                /\ m.fatalities = FatalitySum(Assignment, m.cluster)
                /\ m.zone_label = categorize_zone(FatalitySum(Assignment, m.cluster))[1]
       /\ \A k \in 1..Len(view.metrics_top) :
             LET m == view.metrics_top[k]
             IN /\ m.crashes = Cardinality(Members(Assignment, m.cluster))
                /\ m.fatalities = FatalitySum(Assignment, m.cluster)
                /\ m.zone_label[2] = categorize_zone(FatalitySum(Assignment, m.cluster))[1]
                /\ m.zone_label[1] = categorize_zone(FatalitySum(Assignment, m.cluster))[2]

\* a Danger cluster of two crashes next to a Low Danger one, the noise rows dropped
C4_Witness ==
    /\ view.shown
    /\ ~show_outliers
    /\ -1 \in Ids(Assignment)
    /\ \E k \in 1..Len(view.metrics_top) :
          view.metrics_top[k].crashes = 2 /\ view.metrics_top[k].zone_label[2] = "Danger"
    /\ \E k \in 1..Len(view.map_top) : view.map_top[k].zone_label = "Danger"

(***************************************************************************)
(* C5: for either ranking key the ranked result is the first min(N, |S|)   *)
(* summaries of S in the order key descending, ties by cluster id          *)
(* ascending; with fewer than N summaries all of S is returned, nothing    *)
(* is made up and nothing is repeated.                                     *)
(***************************************************************************)
Before(a, b, key) == a[key] > b[key] \/ (a[key] = b[key] /\ a.cluster < b.cluster)

Ranked(top, S, key, N) ==
    /\ Len(top) = IF N < Len(S) THEN N ELSE Len(S)
    /\ \A k \in 1..Len(top) :
          /\ \E j \in 1..Len(S) : S[j].cluster = top[k].cluster /\ S[j][key] = top[k][key]
          /\ top[k].cluster_name = k
    /\ \A k, l \in 1..Len(top) : k # l => top[k].cluster # top[l].cluster
    /\ \A k \in 1..(Len(top) - 1) : Before(top[k], top[k + 1], key)
    /\ \A j \in 1..Len(S) :
          (\A k \in 1..Len(top) : top[k].cluster # S[j].cluster)
          => Before(top[Len(top)], S[j], key)

C5_TopNRanking ==
    view.shown
    => /\ Ranked(view.map_top, view.map_summary, "fatalities", MapTopN)
       /\ Ranked(view.metrics_top, view.metrics_summary, "crashes", view.top_n)

(***************************************************************************)
(* C6: with zero records with valid coordinates the clustering step        *)
(* signals NoValidPoints and attaches no assignment, and the page stops    *)
(* before aggregation and ranking.                                         *)
(***************************************************************************)
C6_NoValidPointsStops ==
    (Called /\ ValidRows(df) = {})
    => /\ signal = "NoValidPoints"
       /\ returned
       /\ df.columns = BaseColumns
       /\ pc = "stopped"
       /\ view = NoView

C6_Witness ==
    pc = "stopped" /\ signal = "NoValidPoints" /\ Len(df.rows) >= 2 /\ ValidRows(df) = {}

(***************************************************************************)
(* C7: with eps <= 0 or min_samples < 1 the clustering step fails with     *)
(* InvalidParameter for every table and returns nothing.                   *)
(***************************************************************************)
C7_InvalidParameterFailsFast ==
    (pc = "called" /\ ~(eps > 0 /\ min_samples >= 1))
    => signal = "InvalidParameter" /\ ~returned

(***************************************************************************)
(* C8: in a returned assignment a point is noise exactly when it is not a  *)
(* core point and no core point lies within eps of it; with                *)
(* min_samples = 1 nothing is noise, and with all points mutually farther  *)
(* than eps and min_samples > 1 everything is noise.                       *)
(***************************************************************************)
C8_NoiseCharacterization ==
    (pc = "called" /\ signal = "ok")
    => LET a == df
           n == Len(a.rows)
       IN /\ \A i \in 1..n :
                (a.rows[i]["cluster"] = -1) <=> (~Core(a, i) /\ ~NearCore(a, i))
          /\ min_samples = 1 => \A i \in 1..n : a.rows[i]["cluster"] # -1
          /\ (min_samples > 1 /\ \A i, j \in 1..n : i # j => ~Within(a, i, j))
                => \A i \in 1..n : a.rows[i]["cluster"] = -1

\* a border point: not core itself, but in the cluster of a core point
C8_Witness ==
    /\ pc = "called" /\ signal = "ok"
    /\ \E i \in 1..Len(df.rows) :
          ~Core(df, i) /\ df.rows[i]["cluster"] >= 0

(***************************************************************************)
(* C9: the outcome of an invocation is the outcome of clustering a fresh   *)
(* table with the same records under the same eps and min_samples; no      *)
(* column of an earlier run is carried into it.                            *)
(***************************************************************************)
BaseRows(d) ==
    [i \in 1..Len(d.rows) |-> [c \in BaseColumns |-> d.rows[i][c]]]

C9_OutcomeIndependentOfEarlierRuns ==
    pc = "called"
    => LET fresh == apply_dbscan_clustering(FreshTable(BaseRows(df)), eps, min_samples)
       IN /\ signal = fresh.signal
          /\ returned = fresh.returned
          /\ returned => df = fresh.df

\* a second run whose assignment differs from the one the first run attached
C9_Witness ==
    /\ pc = "called" /\ runs = 2 /\ signal = "ok"
    /\ previous # <<>>
    /\ "cluster" \in previous[1].columns
    /\ previous[1] # df

(***************************************************************************)
(* C10: for every combination of county and city, the top_n of the metrics *)
(* table with a city selected is 3 and at most the top_n with only a       *)
(* county selected, which is 5 and at most the top_n with no geographic    *)
(* filter, which is 10.                                                    *)
(***************************************************************************)
CountyOnly == {f \in [county : Counties, city : Cities] :
                 f.county # "All counties" /\ f.city = "All cities"}

C10_TopNNarrowing ==
    view.shown
    => /\ filters_dict.city # "All cities"
            => /\ view.top_n = 3
               /\ \A f \in CountyOnly : view.top_n <= TopN(f)
       /\ filters_dict \in CountyOnly
            => view.top_n = 5 /\ view.top_n <= TopN(NoFilter)
       /\ filters_dict = NoFilter => view.top_n = 10

====
